---------------------------- MODULE Spec2Model ----------------------------
(***************************************************************************)
(* Model of the call routing framework: CallRoutingFramework.processCall   *)
(* and endCall (src/src/core/lcr.js), the anomaly detection system         *)
(* (src/src/monitoring/anomaly_detection.js), the analytics sink           *)
(* (src/src/monitoring/analytics.js) and the dynamic call distribution     *)
(* and least-cost routing selectors (src/config/system.js,                 *)
(* src/src/core/lcr.js).                                                   *)
(*                                                                         *)
(* Numbers.  JavaScript numbers are modelled exactly as extended           *)
(* rationals: [k |-> "num", n |-> numerator, d |-> denominator > 0],       *)
(* Infinity as [k |-> "inf"] and NaN as [k |-> "nan"].  Date.now() is the  *)
(* variable now, in whole seconds.                                         *)
(***************************************************************************)
EXTENDS Integers, Sequences, FiniteSets, TLC

\* ------------------------------------------------------------------ bounds

\* Number of processCall invocations the host makes.
NumInv == 2

\* Largest value of the clock (seconds).
MaxTime == 2

\* Number of updateBaseline calls the host makes.
MaxUpdates == 1

\* Number of endCall calls the host makes.
MaxEnds == 2

\* Longest route list the host passes to findOptimalRoute directly.
MaxRouteListLen == 2

\* Number of updateBaseline calls the host makes on a detector it uses directly.
MaxDirectUpdates == 2

\* Longest anomaly list the host passes to calculateRiskScore directly.
MaxAnomalies == 2
MaxCostComponents == 2

\* ------------------------------------------------------- extended rationals

Abs(x) == IF x < 0 THEN -x ELSE x

RECURSIVE GCD(_, _)
GCD(a, b) == IF b = 0 THEN a ELSE GCD(b, a % b)

\* The rational n/d, d # 0, in lowest terms with a positive denominator.
Rat(n, d) ==
    LET g == GCD(Abs(n), Abs(d))
        s == IF d < 0 THEN -1 ELSE 1
    IN  [k |-> "num", n |-> (s * n) \div g, d |-> (s * d) \div g]

Int2Num(i) == [k |-> "num", n |-> i, d |-> 1]
Infinity == [k |-> "inf", n |-> 1, d |-> 0]
NaN == [k |-> "nan", n |-> 0, d |-> 0]
Zero == Int2Num(0)
One == Int2Num(1)

\* a < b in JavaScript: false whenever an operand is NaN.
NumLess(a, b) ==
    CASE a.k = "nan" \/ b.k = "nan" -> FALSE
      [] a.k = "inf" -> FALSE
      [] b.k = "inf" -> TRUE
      [] OTHER -> a.n * b.d < b.n * a.d

\* a + b for operands that are not -Infinity.
NumAdd(a, b) ==
    CASE a.k = "nan" \/ b.k = "nan" -> NaN
      [] a.k = "inf" \/ b.k = "inf" -> Infinity
      [] OTHER -> Rat(a.n * b.d + b.n * a.d, a.d * b.d)

\* a * b for b a positive finite number (a weight).
NumScale(a, b) ==
    CASE a.k = "nan" -> NaN
      [] a.k = "inf" -> Infinity
      [] OTHER -> Rat(a.n * b.n, a.d * b.d)

\* Math.abs(a - b) / m, the relative deviation of detectAnomaly, for finite a.
\* 0/0 is NaN, x/0 is Infinity for x > 0; a NaN mean gives NaN.
RelDeviation(a, m) ==
    CASE m.k = "nan" -> NaN
      [] m.n = 0 -> IF a.n = 0 THEN NaN ELSE Infinity
      [] OTHER -> Rat(Abs(a.n * m.d - m.n * a.d) * m.d, a.d * m.d * m.n)

\* JavaScript truthiness of a number: 0 and NaN are falsy.
Truthy(x) == ~(x.k = "nan") /\ ~(x.k = "num" /\ x.n = 0)

\* Math.min(1, x): NaN if x is NaN.
Min1(x) == IF x.k = "nan" THEN NaN ELSE IF NumLess(x, One) THEN x ELSE One

RECURSIVE SumSeq(_)
SumSeq(s) == IF s = <<>> THEN 0 ELSE Head(s) + SumSeq(Tail(s))

\* ------------------------------------------------- AnomalyDetectionSystem

\* this.anomalyThresholds[metricName] || 0.2
AnomalyThreshold(metricName) ==
    CASE metricName = "callVolume" -> Rat(30, 100)
      [] metricName = "duration" -> Rat(25, 100)
      [] metricName = "failureRate" -> Rat(20, 100)
      [] metricName = "latency" -> Rat(15, 100)
      [] OTHER -> Rat(20, 100)

\* values.reduce((a, b) => a + b, 0) / values.length
Mean(values) ==
    IF Len(values) = 0 THEN NaN ELSE Rat(SumSeq(values), Len(values))

\* values.reduce((a, b) => a + Math.pow(b - mean, 2), 0) / values.length
Variance(values) ==
    LET n == Len(values)
        S == SumSeq(values)
        sq == [i \in 1..n |-> (n * values[i] - S) * (n * values[i] - S)]
    IN  IF n = 0 THEN NaN ELSE Rat(SumSeq(sq), n * n * n)

\* Mutant: the standard deviation stored is not the one of the window passed.
NewBaselineTorn(values, t) ==
    [mean |-> Mean(values), stdDev |-> [radicand |-> Variance(<<0>>)], lastUpdated |-> t]

\* Math.sqrt(variance), kept exact as the root of its radicand.
Sqrt(v) == [radicand |-> v]

\* The record updateBaseline stores for (values) at time t.
NewBaseline(values, t) ==
    [mean |-> Mean(values), stdDev |-> Sqrt(Variance(values)), lastUpdated |-> t]

\* Mutant: a metric without a baseline is reported as anomalous.
NoBaselineResultAnomalous ==
    [isAnomaly |-> TRUE, deviation |-> One, threshold |-> Zero,
     baselineMean |-> Zero, currentValue |-> Zero, timestamp |-> 0]

\* if (!baseline) return { isAnomaly: false, reason: 'No baseline established' }
NoBaselineResult == [isAnomaly |-> FALSE, reason |-> "No baseline established"]

\* Mutant: a deviation equal to the threshold is anomalous as well.
ExceedsOrEquals(deviation, threshold) ==
    deviation.k # "nan" /\ ~NumLess(deviation, threshold)

\* deviation > threshold
Exceeds(deviation, threshold) == NumLess(threshold, deviation)

\* detectAnomaly(metricName, value) against the baseline map bm at time t.
DetectAnomaly(bm, metricName, value, t) ==
    IF metricName \notin DOMAIN bm
    THEN NoBaselineResult
    ELSE LET threshold == AnomalyThreshold(metricName)
             deviation == RelDeviation(value, bm[metricName].mean)
         IN  [isAnomaly |-> Exceeds(deviation, threshold),
              deviation |-> deviation,
              threshold |-> threshold,
              baselineMean |-> bm[metricName].mean,
              currentValue |-> value,
              timestamp |-> t]

\* One `if (metrics.field) { detect; if (isAnomaly) push }` block of
\* processCallMetrics: the anomalies it appends (none or one).
CheckField(bm, metrics, field, type, t) ==
    IF field \in DOMAIN metrics /\ Truthy(metrics[field])
    THEN LET r == DetectAnomaly(bm, type, metrics[field], t)
         IN  IF r.isAnomaly
             THEN << [type |-> type,
                      isAnomaly |-> r.isAnomaly,
                      deviation |-> r.deviation,
                      threshold |-> r.threshold,
                      baselineMean |-> r.baselineMean,
                      currentValue |-> r.currentValue,
                      timestamp |-> r.timestamp] >>
             ELSE <<>>
    ELSE <<>>

\* processCallMetrics(metrics): callVolume, then avgDuration, then failureRate.
ProcessCallMetrics(bm, metrics, t) ==
    CheckField(bm, metrics, "callVolume", "callVolume", t)
      \o CheckField(bm, metrics, "avgDuration", "duration", t)
      \o CheckField(bm, metrics, "failureRate", "failureRate", t)

\* weights[anomaly.type] || 0.2
RiskWeight(type) ==
    CASE type = "callVolume" -> Rat(3, 10)
      [] type = "duration" -> Rat(2, 10)
      [] type = "failureRate" -> Rat(5, 10)
      [] OTHER -> Rat(2, 10)

RECURSIVE TotalScore(_)
TotalScore(anomalies) ==
    IF anomalies = <<>> THEN Zero
    ELSE NumAdd(NumScale(Head(anomalies).deviation, RiskWeight(Head(anomalies).type)),
                TotalScore(Tail(anomalies)))

\* Mutant: a score of exactly 0.3 is low and a score of exactly 0.7 is medium.
RiskLevelInclusive(normalizedScore) ==
    IF ~NumLess(Rat(3, 10), normalizedScore) THEN "low"
    ELSE IF ~NumLess(Rat(7, 10), normalizedScore) THEN "medium"
    ELSE "high"

\* if (score < 0.3) low; else if (score < 0.7) medium; else high
RiskLevel(normalizedScore) ==
    IF NumLess(normalizedScore, Rat(3, 10)) THEN "low"
    ELSE IF NumLess(normalizedScore, Rat(7, 10)) THEN "medium"
    ELSE "high"

\* calculateRiskScore(anomalies) at time t.
CalculateRiskScore(anomalies, t) ==
    IF Len(anomalies) = 0
    THEN [score |-> Zero, level |-> "low"]
    ELSE LET normalizedScore == Min1(TotalScore(anomalies))
         IN  [score |-> normalizedScore,
              level |-> RiskLevel(normalizedScore),
              anomalyCount |-> Len(anomalies),
              timestamp |-> t]

\* generateAlerts(anomalies) at time t; salts are the Math.random() parts of
\* the alert ids, and the message keeps the percentage as a number.
GenerateAlerts(anomalies, salts, t) ==
    [i \in 1..Len(anomalies) |->
        [id |-> <<"alert", t, salts[i]>>,
         type |-> <<"anomaly_", anomalies[i].type>>,
         severity |-> IF NumLess(Rat(5, 10), anomalies[i].deviation)
                      THEN "high" ELSE "medium",
         message |-> <<"Anomaly detected in ", anomalies[i].type,
                       NumScale(anomalies[i].deviation, Int2Num(100))>>,
         timestamp |-> t,
         metadata |-> [baselineValue |-> anomalies[i].baselineMean,
                       currentValue |-> anomalies[i].currentValue,
                       threshold |-> anomalies[i].threshold]]]

\* ------------------------------------------------ DynamicCallDistribution

\* a - b and a * b for finite numbers.
NumSub(a, b) == Rat(a.n * b.d - b.n * a.d, a.d * b.d)
NumMul(a, b) == Rat(a.n * b.n, a.d * b.d)
\* Mutant: the latency is not capped.
NumMinUncapped(a, b) == a

NumMin(a, b) == IF NumLess(b, a) THEN b ELSE a

LATENCY_WEIGHT == Rat(4, 10)
LOAD_WEIGHT == Rat(3, 10)
RELIABILITY_WEIGHT == Rat(3, 10)

\* getAvailableRoutes(networkState): the prototype's fixed route list.
GetAvailableRoutes == <<"route1", "route2", "route3", "route4">>

Routes == {GetAvailableRoutes[i] : i \in 1..Len(GetAvailableRoutes)}

\* calculateRouteWeight({latency, load, reliability})
CalculateRouteWeight(metrics) ==
    LET normalizedLatency ==
            NumSub(One, NumMul(NumMin(metrics.latency, Int2Num(200)), Rat(1, 200)))
    IN  NumAdd(NumAdd(NumMul(LATENCY_WEIGHT, normalizedLatency),
                      NumMul(LOAD_WEIGHT, NumSub(One, metrics.load))),
               NumMul(RELIABILITY_WEIGHT, metrics.reliability))

\* Mutant: among entries of the highest weight the latest one comes first.
FirstHighestLatest(keys) ==
    CHOOSE i \in 1..Len(keys) :
        /\ \A j \in 1..Len(keys) : ~NumLess(keys[i], keys[j])
        /\ \A j \in (i + 1)..Len(keys) : NumLess(keys[j], keys[i])

\* sort((a, b) => b[1].weight - a[1].weight) is stable: the entry it puts
\* first is the earliest one of the highest weight.
FirstHighest(keys) ==
    CHOOSE i \in 1..Len(keys) :
        /\ \A j \in 1..Len(keys) : ~NumLess(keys[i], keys[j])
        /\ \A j \in 1..(i - 1) : NumLess(keys[j], keys[i])

\* getOptimalRoute, given the routes getAvailableRoutes returned and the
\* metrics measured for each: sortedRoutes[0], or the TypeError that reading
\* sortedRoutes[0][0] of an empty array throws.
GetOptimalRoute(availableRoutes, metricsOf) ==
    IF Len(availableRoutes) = 0
    THEN [error |-> "TypeError"]
    ELSE LET weights == [i \in 1..Len(availableRoutes) |->
                            CalculateRouteWeight(metricsOf[availableRoutes[i]])]
             best == FirstHighest(weights)
         IN  [selectedRoute |-> availableRoutes[best],
              metrics |-> metricsOf[availableRoutes[best]],
              weight |-> weights[best]]

\* ------------------------------------------------------- LeastCostRouting

DELAY_PENALTY_FACTOR == Rat(2, 10)

\* (weights[i] || 1): an omitted weight and a weight of 0 both give 1.
WeightOrOne(weights, i) ==
    IF i \in DOMAIN weights /\ Truthy(weights[i]) THEN weights[i] ELSE One

RECURSIVE WeightedCost(_, _, _)
WeightedCost(routeCosts, weights, i) ==
    IF i > Len(routeCosts) THEN Zero
    ELSE NumAdd(NumMul(WeightOrOne(weights, i), routeCosts[i]),
                WeightedCost(routeCosts, weights, i + 1))

\* calculateTotalCost(route, delay)
CalculateTotalCost(route, delay) ==
    NumAdd(WeightedCost(route.costs, route.weights, 1),
           NumMul(DELAY_PENALTY_FACTOR, delay))

\* sort((a, b) => a[1].totalCost - b[1].totalCost) is stable: the entry it
\* puts first is the earliest one of the lowest total cost.
FirstLowest(keys) ==
    CHOOSE i \in 1..Len(keys) :
        /\ \A j \in 1..Len(keys) : ~NumLess(keys[j], keys[i])
        /\ \A j \in 1..(i - 1) : NumLess(keys[i], keys[j])

\* findOptimalRoute(availableRoutes), given the cost data and the delay
\* obtained for each route; availableRoutes has no repeated route.
FindOptimalRoute(availableRoutes, costInfoOf, delayOf) ==
    IF Len(availableRoutes) = 0
    THEN [error |-> "TypeError"]
    ELSE LET totals == [i \in 1..Len(availableRoutes) |->
                           CalculateTotalCost(costInfoOf[availableRoutes[i]],
                                              delayOf[availableRoutes[i]])]
             best == FirstLowest(totals)
         IN  [selectedRoute |-> availableRoutes[best],
              metrics |-> [totalCost |-> totals[best],
                           delay |-> delayOf[availableRoutes[best]],
                           costs |-> costInfoOf[availableRoutes[best]].costs,
                           weights |-> costInfoOf[availableRoutes[best]].weights]]

\* ------------------------------------------------------------ STIRSHAKENAuth

\* What jwt.decode and the 5 minute window make of callRequest.passport.
PassportKinds == {"absent", "undecodable", "expired", "valid"}

\* processIncomingCall(callRequest)
ProcessIncomingCall(callRequest) ==
    CASE callRequest.passport = "absent" ->
             [verified |-> FALSE, attestationLevel |-> "null", errorCode |-> "NO_PASSPORT"]
      [] callRequest.passport \in {"undecodable", "expired"} ->
             [verified |-> FALSE, attestationLevel |-> "null", errorCode |-> "INVALID_PASSPORT"]
      [] OTHER ->
             [verified |-> TRUE, attestationLevel |-> "A", errorCode |-> "null"]

\* ------------------------------------------------------ CallRoutingFramework

Procs == 1..NumInv

CallIds == {"c1", "c2"}

\* Measurements the simulated measureLatency / getCurrentLoad /
\* calculateReliability can return for the routes of one getOptimalRoute.
GoodMetrics == [latency |-> Int2Num(50), load |-> Rat(20, 100), reliability |-> Rat(98, 100)]
PoorMetrics == [latency |-> Int2Num(60), load |-> Rat(50, 100), reliability |-> One]

RouteMetricSamples ==
    { [r \in Routes |-> GoodMetrics],
      [r \in Routes |-> IF r = "route3" THEN GoodMetrics ELSE PoorMetrics] }

\* Values the simulated getRouteCosts / measureDelay can return for a route.
RouteCostSamples ==
    { [costs |-> <<Int2Num(4), Int2Num(2), Int2Num(1)>>,
       weights |-> <<Rat(5, 10), Rat(3, 10), Rat(2, 10)>>],
      [costs |-> <<Int2Num(9), Int2Num(1), Int2Num(2)>>,
       weights |-> <<Rat(5, 10), Rat(3, 10), Rat(2, 10)>>] }

DelaySamples == {Int2Num(30), Int2Num(40)}

\* The updateBaseline calls the host makes: metric names and historical windows.
UpdatedMetrics == {"duration", "callVolume"}

HistorySamples == {<<0>>, <<0, 1>>}

Null == [none |-> TRUE]

VARIABLES
    now,                \* Date.now(), in seconds
    baselineMetrics,    \* anomalyDetection.baselineMetrics: metric name -> baseline
    activeCalls,        \* this.activeCalls: call id -> callMonitoring
    systemMetrics,      \* this.systemMetrics
    pc,                 \* where each processCall invocation stands
    callRequest,        \* its argument
    verificationResult, \* its local verificationResult
    optimalRoute,       \* its local optimalRoute
    anomalies,          \* its local anomalies
    riskScore,          \* its local riskScore (block scoped)
    result,             \* what the invocation returned or threw
    endResult,          \* what the latest endCall returned or threw
    steps,              \* history: the lifecycle steps taken for each invocation
    registrant,         \* history: the invocation that wrote each live session
    assessed,           \* history: the risk decision taken for each invocation
    soloAssessed,       \* history: the decision it would have taken had no call
                        \* with another id been registered
    updates,            \* number of updateBaseline calls made
    ends,               \* number of endCall calls made
    lcrCall,            \* the latest direct lcr.findOptimalRoute call and its outcome
    adsCall,            \* the latest direct call of the anomaly detection system
                        \* and its outcome
    updateLog,          \* history: the windows passed to updateBaseline, per metric
    collab,             \* history: the collaborator calls each invocation made
    failedAt,           \* history: the position in collab of the call that failed
                        \* (0 while none has)
    dcdCall,            \* the latest direct call of the distribution scorer and
                        \* its outcome
    costCall,           \* the latest direct lcr.calculateTotalCost call and its outcome
    otpSecrets,         \* mfa.otpSecrets: user id -> secret data
    verificationAttempts, \* mfa.verificationAttempts: user id -> failed attempts
    mfaCall             \* the latest direct call of the multi-factor authenticator
                        \* and its outcome

vars == <<now, baselineMetrics, updateLog, activeCalls, systemMetrics, pc, callRequest,
          verificationResult, optimalRoute, anomalies, riskScore,
          result, endResult, steps, registrant, assessed, soloAssessed,
          updates, ends, lcrCall, adsCall, collab, failedAt,
          dcdCall, costCall, otpSecrets, verificationAttempts, mfaCall>>

apiCalls == <<dcdCall, costCall, otpSecrets, verificationAttempts, mfaCall>>

locals == <<verificationResult, optimalRoute, anomalies, riskScore>>

procVars == <<pc, callRequest, locals, result, assessed, soloAssessed, collab, failedAt>>

Init ==
    /\ now = 0
    /\ baselineMetrics = <<>>
    /\ activeCalls = <<>>
    /\ systemMetrics = [startTime |-> 0, totalCalls |-> 0,
                        successfulCalls |-> 0, failedCalls |-> 0]
    /\ pc = [p \in Procs |-> "idle"]
    /\ callRequest = [p \in Procs |-> Null]
    /\ verificationResult = [p \in Procs |-> Null]
    /\ optimalRoute = [p \in Procs |-> Null]
    /\ anomalies = [p \in Procs |-> Null]
    /\ riskScore = [p \in Procs |-> Null]
    /\ result = [p \in Procs |-> Null]
    /\ endResult = Null
    /\ steps = [p \in Procs |-> <<>>]
    /\ registrant = <<>>
    /\ assessed = [p \in Procs |-> "none"]
    /\ soloAssessed = [p \in Procs |-> "none"]
    /\ updates = 0
    /\ ends = 0
    /\ lcrCall = Null
    /\ adsCall = Null
    /\ updateLog = <<>>
    /\ collab = [p \in Procs |-> <<>>]
    /\ failedAt = [p \in Procs |-> 0]
    /\ dcdCall = Null
    /\ costCall = Null
    /\ otpSecrets = <<>>
    /\ verificationAttempts = <<>>
    /\ mfaCall = Null

\* The map m with key k set to v, and with key k deleted.
MapSet(m, k, v) == [x \in DOMAIN m \cup {k} |-> IF x = k THEN v ELSE m[x]]
MapDelete(m, k) == [x \in DOMAIN m \ {k} |-> m[x]]

RECURSIVE SumOver(_, _)
SumOver(f, S) ==
    IF S = {} THEN 0
    ELSE LET x == CHOOSE y \in S : TRUE IN f[x] + SumOver(f, S \ {x})

\* calculateAverageDuration() over the live-call map calls at time t.
CalculateAverageDuration(calls, t) ==
    IF Cardinality(DOMAIN calls) = 0 THEN Zero
    ELSE Rat(SumOver([c \in DOMAIN calls |-> t - calls[c].startTime], DOMAIN calls),
             Cardinality(DOMAIN calls))

\* calculateFailureRate()
CalculateFailureRate(sm) ==
    IF sm.totalCalls = 0 THEN Zero
    ELSE Rat(sm.failedCalls * 100, sm.totalCalls)

\* The callMetrics object of processCall step 5.
CallMetrics(calls, sm, t) ==
    [callVolume |-> Int2Num(sm.totalCalls),
     avgDuration |-> CalculateAverageDuration(calls, t),
     failureRate |-> CalculateFailureRate(sm)]

\* The errors processCall and endCall can throw.
VerificationError(errorCode) ==
    [name |-> "Error", message |-> <<"Call verification failed: ", errorCode>>]
HighRiskError == [name |-> "Error", message |-> <<"High-risk call detected">>]
RiskScoreReferenceError ==
    [name |-> "ReferenceError", message |-> <<"riskScore is not defined">>]
RouteTypeError ==
    [name |-> "TypeError", message |-> <<"Cannot read properties of undefined">>]
SinkError == [name |-> "ConnectionError", message |-> <<"analytics client.index failed">>]
CallNotFoundError == [name |-> "Error", message |-> <<"Call not found">>]

\* The locals of invocation p after a step; they are gone once it has settled.
Locals(p, vr, route, anoms, risk) ==
    /\ verificationResult' = [verificationResult EXCEPT ![p] = vr]
    /\ optimalRoute' = [optimalRoute EXCEPT ![p] = route]
    /\ anomalies' = [anomalies EXCEPT ![p] = anoms]
    /\ riskScore' = [riskScore EXCEPT ![p] = risk]

\* Mutant: the catch block rethrows without counting the failure.
CatchUncounted(p, error) ==
    /\ systemMetrics' = systemMetrics
    /\ result' = [result EXCEPT ![p] = [success |-> FALSE, error |-> error]]
    /\ pc' = [pc EXCEPT ![p] = "done"]
    /\ Locals(p, Null, Null, Null, Null)

\* catch (error) { this.systemMetrics.failedCalls++; throw error; }
Catch(p, error) ==
    /\ systemMetrics' = [systemMetrics EXCEPT !.failedCalls = @ + 1]
    /\ result' = [result EXCEPT ![p] = [success |-> FALSE, error |-> error]]
    /\ pc' = [pc EXCEPT ![p] = "done"]
    /\ Locals(p, Null, Null, Null, Null)

Step(p, names) == steps' = [steps EXCEPT ![p] = @ \o names]

\* A call of a collaborator's operation, on a route where it takes one.
Call(op, route) == [op |-> op, route |-> route]

\* Mutant: a latency measurement is made a second time.
MetricFetchesRetry(route) ==
    << Call("measureLatency", route), Call("measureLatency", route),
       Call("getCurrentLoad", route), Call("calculateReliability", route) >>

\* The body of the loop of getOptimalRoute for one route: one measureLatency,
\* one getCurrentLoad, one calculateReliability.
MetricFetches(route) ==
    << Call("measureLatency", route), Call("getCurrentLoad", route),
       Call("calculateReliability", route) >>

\* The calls getOptimalRoute makes: getAvailableRoutes, then the loop.
RECURSIVE GetOptimalRouteLoop(_)
GetOptimalRouteLoop(availableRoutes) ==
    IF availableRoutes = <<>> THEN <<>>
    ELSE MetricFetches(Head(availableRoutes)) \o GetOptimalRouteLoop(Tail(availableRoutes))

GetOptimalRouteCalls(availableRoutes) ==
    <<Call("getAvailableRoutes", "none")>> \o GetOptimalRouteLoop(availableRoutes)

\* The calls findOptimalRoute makes: getRouteCosts and measureDelay per route.
RECURSIVE FindOptimalRouteCalls(_)
FindOptimalRouteCalls(availableRoutes) ==
    IF availableRoutes = <<>> THEN <<>>
    ELSE << Call("getRouteCosts", Head(availableRoutes)),
            Call("measureDelay", Head(availableRoutes)) >>
             \o FindOptimalRouteCalls(Tail(availableRoutes))

\* Invocation p makes the collaborator calls calls, in order; failed tells
\* whether the last of them failed.
Invoke(p, calls, failed) ==
    /\ collab' = [collab EXCEPT ![p] = @ \o calls]
    /\ failedAt' = [failedAt EXCEPT ![p] =
                        IF failed THEN Len(collab[p]) + Len(calls) ELSE @]

\* The host calls processCall(callRequest).
ProcessCall_Start(p) ==
    /\ pc[p] = "idle"
    /\ \E id \in CallIds, passport \in PassportKinds :
           callRequest' = [callRequest EXCEPT ![p] = [id |-> id, passport |-> passport]]
    /\ pc' = [pc EXCEPT ![p] = "verify"]
    /\ UNCHANGED <<now, baselineMetrics, updateLog, activeCalls, systemMetrics, locals,
                   result, endResult, steps, registrant, assessed, soloAssessed,
                   updates, ends, lcrCall, adsCall, collab, failedAt, apiCalls>>

\* Mutant: only a missing passport is rejected.
VerificationPassedMutant(vr) == vr.errorCode # "NO_PASSPORT"

\* if (!verificationResult.verified) is not taken
VerificationPassed(vr) == vr.verified

\* Step 1: await this.stirShaken.processIncomingCall(callRequest).
ProcessCall_Verify(p) ==
    /\ pc[p] = "verify"
    /\ LET vr == ProcessIncomingCall(callRequest[p])
       IN  IF VerificationPassed(vr)
           THEN /\ Locals(p, vr, Null, Null, Null)
                /\ pc' = [pc EXCEPT ![p] = "route"]
                /\ Step(p, <<"verify">>)
                /\ Invoke(p, <<Call("processIncomingCall", "none")>>, FALSE)
                /\ UNCHANGED <<systemMetrics, result, apiCalls>>
           ELSE /\ Catch(p, VerificationError(vr.errorCode))
                /\ Step(p, <<"verify", "Aborted">>)
                /\ Invoke(p, <<Call("processIncomingCall", "none")>>, TRUE)
    /\ UNCHANGED <<now, baselineMetrics, updateLog, activeCalls, callRequest, endResult,
                   registrant, assessed, soloAssessed, updates, ends, lcrCall, adsCall, apiCalls>>

\* Step 2: await this.getNetworkState(); await this.dcd.getOptimalRoute(...).
ProcessCall_Route(p) ==
    /\ pc[p] = "route"
    /\ Invoke(p, GetOptimalRouteCalls(GetAvailableRoutes), FALSE)
    /\ \E metricsOf \in RouteMetricSamples :
           LET r == GetOptimalRoute(GetAvailableRoutes, metricsOf)
           IN  IF "error" \in DOMAIN r
               THEN /\ Catch(p, RouteTypeError)
                    /\ Step(p, <<"score", "Aborted">>)
               ELSE /\ Locals(p, verificationResult[p], r, Null, Null)
                    /\ pc' = [pc EXCEPT ![p] = "cost"]
                    /\ Step(p, <<"score">>)
                    /\ UNCHANGED <<systemMetrics, result, apiCalls>>
    /\ UNCHANGED <<now, baselineMetrics, updateLog, activeCalls, callRequest, endResult,
                   registrant, assessed, soloAssessed, updates, ends, lcrCall, adsCall, apiCalls>>

\* Step 3: await this.lcr.findOptimalRoute([optimalRoute.selectedRoute]).  The
\* local routeCosts it assigns is never read afterwards, so only whether the
\* call throws is kept.
ProcessCall_Cost(p) ==
    /\ pc[p] = "cost"
    /\ Invoke(p, FindOptimalRouteCalls(<<optimalRoute[p].selectedRoute>>), FALSE)
    /\ \E info \in RouteCostSamples, delay \in DelaySamples :
           LET route == optimalRoute[p].selectedRoute
               r == FindOptimalRoute(<<route>>, [x \in {route} |-> info],
                                     [x \in {route} |-> delay])
           IN  IF "error" \in DOMAIN r
               THEN /\ Catch(p, RouteTypeError)
                    /\ Step(p, <<"cost", "Aborted">>)
               ELSE /\ pc' = [pc EXCEPT ![p] = "monitor"]
                    /\ Step(p, <<"cost">>)
                    /\ UNCHANGED <<systemMetrics, result, locals, apiCalls>>
    /\ UNCHANGED <<now, baselineMetrics, updateLog, activeCalls, callRequest, endResult,
                   registrant, assessed, soloAssessed, updates, ends, lcrCall, adsCall, apiCalls>>

\* Mutant: the risk level is looked at only when several anomalies were found.
HighRiskDetectedMutant(anoms, risk) == Len(anoms) > 1 /\ risk.level = "high"

\* if (anomalies.length > 0) { ...; if (riskScore.level === 'high') throw }
HighRiskDetected(anoms, risk) == Len(anoms) > 0 /\ risk.level = "high"

\* The risk decision processCall takes on the anomalies anoms at time t.
Assessment(anoms, t) ==
    IF Len(anoms) = 0 THEN "noAnomaly" ELSE CalculateRiskScore(anoms, t).level

\* Steps 4 to 7, up to the call of logCall: one synchronous block.  The
\* argument of logCall reads riskScore outside the block that declares it,
\* which throws a ReferenceError whenever anomalies is not empty.
ProcessCall_Monitor(p) ==
    /\ pc[p] = "monitor"
    /\ Invoke(p, <<Call("generateSessionKey", "none"),
                   Call("encryptWithSession", "none")>>, FALSE)
    /\ LET id == callRequest[p].id
           anoms == ProcessCallMetrics(baselineMetrics,
                        CallMetrics(activeCalls, systemMetrics, now), now)
           risk == IF Len(anoms) > 0 THEN CalculateRiskScore(anoms, now) ELSE Null
           own == [c \in DOMAIN activeCalls \cap {id} |-> activeCalls[c]]
           soloAnoms == ProcessCallMetrics(baselineMetrics,
                            CallMetrics(own, systemMetrics, now), now)
           callMonitoring == [id |-> id,
                              startTime |-> now,
                              route |-> optimalRoute[p].selectedRoute,
                              metrics |-> optimalRoute[p].metrics,
                              anomalies |-> anoms]
       IN  /\ assessed' = [assessed EXCEPT ![p] = Assessment(anoms, now)]
           /\ soloAssessed' = [soloAssessed EXCEPT ![p] = Assessment(soloAnoms, now)]
           /\ IF HighRiskDetected(anoms, risk)
              THEN /\ Catch(p, HighRiskError)
                   /\ Step(p, <<"key", "risk", "Aborted">>)
                   /\ UNCHANGED <<activeCalls, registrant, apiCalls>>
              ELSE /\ activeCalls' = MapSet(activeCalls, id, callMonitoring)
                   /\ registrant' = MapSet(registrant, id, p)
                   /\ IF Len(anoms) > 0
                      THEN /\ Catch(p, RiskScoreReferenceError)
                           /\ Step(p, <<"key", "risk", "register", "Aborted">>)
                      ELSE /\ Locals(p, verificationResult[p], optimalRoute[p],
                                     anoms, risk)
                           /\ pc' = [pc EXCEPT ![p] = "log"]
                           /\ Step(p, <<"key", "risk", "register">>)
                           /\ UNCHANGED <<systemMetrics, result, apiCalls>>
    /\ UNCHANGED <<now, baselineMetrics, updateLog, callRequest, endResult, updates, ends, lcrCall, adsCall, apiCalls>>

\* Step 7: await this.analytics.logCall(...) settles, then the return.
ProcessCall_Log(p) ==
    /\ pc[p] = "log"
    /\ \E sinkOk \in BOOLEAN :
           IF sinkOk
           THEN /\ result' = [result EXCEPT ![p] =
                       [success |-> TRUE,
                        callId |-> callRequest[p].id,
                        route |-> optimalRoute[p].selectedRoute,
                        encryptedChannel |-> [callId |-> callRequest[p].id,
                                              route |-> optimalRoute[p].selectedRoute],
                        verificationStatus |-> verificationResult[p].attestationLevel]]
                /\ pc' = [pc EXCEPT ![p] = "done"]
                /\ Locals(p, Null, Null, Null, Null)
                /\ Invoke(p, <<Call("logCall", "none")>>, FALSE)
                /\ UNCHANGED <<systemMetrics, steps, apiCalls>>
           ELSE /\ Catch(p, SinkError)
                /\ Step(p, <<"Aborted">>)
                /\ Invoke(p, <<Call("logCall", "none")>>, TRUE)
    /\ UNCHANGED <<now, baselineMetrics, updateLog, activeCalls, callRequest, endResult,
                   registrant, assessed, soloAssessed, updates, ends, lcrCall, adsCall, apiCalls>>

\* endCall(callId): the call is deleted before logCall is awaited, and
\* nothing after the await touches the framework's state.
EndCall(callId) ==
    /\ ends < MaxEnds
    /\ ends' = ends + 1
    /\ IF callId \notin DOMAIN activeCalls
       THEN /\ endResult' = [callId |-> callId, error |-> CallNotFoundError]
            /\ UNCHANGED <<activeCalls, registrant, steps, apiCalls>>
       ELSE LET call == activeCalls[callId]
                duration == now - call.startTime
            IN  /\ activeCalls' = MapDelete(activeCalls, callId)
                /\ registrant' = MapDelete(registrant, callId)
                /\ Step(registrant[callId], <<"Completed">>)
                /\ \E sinkOk \in BOOLEAN :
                       endResult' = IF sinkOk
                                    THEN [callId |-> callId,
                                          duration |-> duration,
                                          route |-> call.route,
                                          metrics |-> call.metrics]
                                    ELSE [callId |-> callId, error |-> SinkError]
    /\ UNCHANGED <<now, baselineMetrics, updateLog, systemMetrics, procVars, updates, lcrCall, adsCall, apiCalls>>

\* Mutant: a baseline that exists is kept instead of being replaced.
StoreBaselineOnce(bm, metricName, baseline) ==
    IF metricName \in DOMAIN bm THEN bm ELSE MapSet(bm, metricName, baseline)

\* Mutant: the new baseline is written to every metric that has one.
StoreBaselineAll(bm, metricName, baseline) ==
    [m \in DOMAIN bm \cup {metricName} |-> baseline]

\* this.baselineMetrics.set(metricName, { mean, stdDev, lastUpdated })
StoreBaseline(bm, metricName, baseline) == MapSet(bm, metricName, baseline)

\* The body of updateBaseline(metricName, values); it has no await.
SetBaseline(metricName, values) ==
    /\ baselineMetrics' = StoreBaseline(baselineMetrics, metricName,
                                        NewBaseline(values, now))
    /\ updateLog' = MapSet(updateLog, metricName,
                           (IF metricName \in DOMAIN updateLog
                            THEN updateLog[metricName] ELSE <<>>) \o <<values>>)

\* The host calls anomalyDetection.updateBaseline(metricName, values) while
\* calls are being processed.
UpdateBaseline(metricName, values) ==
    /\ updates < MaxUpdates
    /\ updates' = updates + 1
    /\ SetBaseline(metricName, values)
    /\ UNCHANGED <<now, activeCalls, systemMetrics, procVars, endResult, steps,
                   registrant, ends, lcrCall, adsCall, apiCalls>>

\* Time passes.
Tick ==
    /\ now < MaxTime
    /\ now' = now + 1
    /\ UNCHANGED <<baselineMetrics, updateLog, activeCalls, systemMetrics, procVars,
                   endResult, steps, registrant, updates, ends, lcrCall, adsCall, apiCalls>>

Next ==
    \/ \E p \in Procs : ProcessCall_Start(p)
    \/ \E p \in Procs : ProcessCall_Verify(p)
    \/ \E p \in Procs : ProcessCall_Route(p)
    \/ \E p \in Procs : ProcessCall_Cost(p)
    \/ \E p \in Procs : ProcessCall_Monitor(p)
    \/ \E p \in Procs : ProcessCall_Log(p)
    \/ \E c \in CallIds : EndCall(c)
    \/ \E m \in UpdatedMetrics, values \in HistorySamples : UpdateBaseline(m, values)
    \/ Tick

Spec == Init /\ [][Next]_vars

\* ------------------------------------------- direct calls of the selectors

RouteLists ==
    UNION { {l \in [1..n -> Routes] : \A i, j \in 1..n : i # j => l[i] # l[j]}
            : n \in 0..MaxRouteListLen }

\* The host calls lcr.findOptimalRoute(availableRoutes); costInfoOf and delayOf
\* are what getRouteCosts and measureDelay return for each route.
FindOptimalRouteCall(availableRoutes, costInfoOf, delayOf) ==
    /\ lcrCall' = [availableRoutes |-> availableRoutes,
                   costInfoOf |-> costInfoOf,
                   delayOf |-> delayOf,
                   result |-> FindOptimalRoute(availableRoutes, costInfoOf, delayOf)]
    /\ UNCHANGED <<now, baselineMetrics, updateLog, activeCalls, systemMetrics, procVars,
                   endResult, steps, registrant, updates, ends, adsCall, apiCalls>>

SelectorNext ==
    \E availableRoutes \in RouteLists :
        LET used == {availableRoutes[i] : i \in 1..Len(availableRoutes)}
        IN  \E costInfoOf \in [used -> RouteCostSamples], delayOf \in [used -> DelaySamples] :
                FindOptimalRouteCall(availableRoutes, costInfoOf, delayOf)

SelectorSpec == Init /\ [][SelectorNext]_vars

\* The route objects a caller can pass to calculateTotalCost: up to
\* MaxCostComponents cost components, weights for a prefix of them (the rest
\* are omitted) that may be 0, and the cost data of getRouteCosts.
CostSamples == {Int2Num(1), Int2Num(2), Int2Num(4)}

WeightSamples == {Zero, Rat(3, 10), Rat(5, 10)}

RouteSamples ==
    RouteCostSamples \cup
    UNION { UNION { [costs : [1..n -> CostSamples], weights : [1..k -> WeightSamples]]
                    : k \in 0..n }
            : n \in 0..MaxCostComponents }

CostDelaySamples == {Zero, Int2Num(40)}

\* The host calls lcr.calculateTotalCost(route, delay).
CalculateTotalCostCall(route, delay) ==
    /\ costCall' = [route |-> route,
                    delay |-> delay,
                    result |-> CalculateTotalCost(route, delay)]
    /\ UNCHANGED <<now, baselineMetrics, updateLog, activeCalls, systemMetrics, procVars,
                   endResult, steps, registrant, updates, ends, lcrCall, adsCall,
                   dcdCall, otpSecrets, verificationAttempts, mfaCall>>

CostNext ==
    \E route \in RouteSamples, delay \in CostDelaySamples :
        CalculateTotalCostCall(route, delay)

CostSpec == Init /\ [][CostNext]_vars

\* ---------------------------- direct calls of the anomaly detection system

\* Metric names, historical windows and observed values the host passes.
DetectorMetrics == {"callVolume", "duration", "failureRate", "jitter"}

WindowSamples == {<<>>, <<0>>, <<10>>, <<-10>>, <<90, 110>>}

ObservedSamples == {Int2Num(0), Int2Num(12), Int2Num(13), Int2Num(120), Int2Num(135)}

\* The metrics objects passed to processCallMetrics: each field may be absent.
CallMetricsFields == {"callVolume", "avgDuration", "failureRate"}

CallMetricsSamples ==
    UNION { [present -> {Int2Num(0), Int2Num(135)}] : present \in SUBSET CallMetricsFields }

\* Anomalies of the kind detectAnomaly flags (deviation above the threshold),
\* with the fields calculateRiskScore reads.
AnomalyTypes == {"callVolume", "duration", "failureRate", "latency"}

DeviationSamples == {Rat(35, 100), Rat(6, 10), Rat(14, 10), Infinity}

AnomalySamples == [type : AnomalyTypes, deviation : DeviationSamples]

AnomalyLists == UNION { [1..n -> AnomalySamples] : n \in 0..MaxAnomalies }

AlertSalts == {"k3j9x0q2m", "z8w1v5b7c"}

\* The host calls anomalyDetection.updateBaseline(metricName, values).
UpdateBaselineCall(metricName, values) ==
    /\ updates < MaxDirectUpdates
    /\ updates' = updates + 1
    /\ SetBaseline(metricName, values)
    /\ adsCall' = [op |-> "updateBaseline", metricName |-> metricName, values |-> values]
    /\ UNCHANGED <<now, activeCalls, systemMetrics, procVars, endResult, steps,
                   registrant, ends, lcrCall, apiCalls>>

\* The host calls anomalyDetection.detectAnomaly(metricName, value); baseline
\* is what this.baselineMetrics.get(metricName) returned.
DetectAnomalyCall(metricName, value) ==
    /\ adsCall' = [op |-> "detectAnomaly",
                   metricName |-> metricName,
                   value |-> value,
                   baseline |-> IF metricName \in DOMAIN baselineMetrics
                                THEN baselineMetrics[metricName] ELSE Null,
                   result |-> DetectAnomaly(baselineMetrics, metricName, value, now)]
    /\ UNCHANGED <<now, baselineMetrics, updateLog, activeCalls, systemMetrics,
                   procVars, endResult, steps, registrant, updates, ends, lcrCall, apiCalls>>

\* The host calls anomalyDetection.processCallMetrics(metrics).
ProcessCallMetricsCall(metrics) ==
    /\ adsCall' = [op |-> "processCallMetrics",
                   metrics |-> metrics,
                   result |-> ProcessCallMetrics(baselineMetrics, metrics, now)]
    /\ UNCHANGED <<now, baselineMetrics, updateLog, activeCalls, systemMetrics,
                   procVars, endResult, steps, registrant, updates, ends, lcrCall, apiCalls>>

\* The host calls anomalyDetection.calculateRiskScore(anomalies).
CalculateRiskScoreCall(anomalyList) ==
    /\ adsCall' = [op |-> "calculateRiskScore",
                   anomalies |-> anomalyList,
                   result |-> CalculateRiskScore(anomalyList, now)]
    /\ UNCHANGED <<now, baselineMetrics, updateLog, activeCalls, systemMetrics,
                   procVars, endResult, steps, registrant, updates, ends, lcrCall, apiCalls>>

\* The host calls anomalyDetection.generateAlerts(anomalies).
GenerateAlertsCall(anomalyList) ==
    /\ \E salts \in [1..Len(anomalyList) -> AlertSalts] :
           adsCall' = [op |-> "generateAlerts",
                       anomalies |-> anomalyList,
                       result |-> GenerateAlerts(anomalyList, salts, now)]
    /\ UNCHANGED <<now, baselineMetrics, updateLog, activeCalls, systemMetrics,
                   procVars, endResult, steps, registrant, updates, ends, lcrCall, apiCalls>>

\* The host passes the anomalies processCallMetrics just returned on to
\* calculateRiskScore, and to generateAlerts.
ScoreFlagged ==
    /\ adsCall # Null
    /\ adsCall.op = "processCallMetrics"
    /\ CalculateRiskScoreCall(adsCall.result)

AlertFlagged ==
    /\ adsCall # Null
    /\ adsCall.op = "processCallMetrics"
    /\ GenerateAlertsCall(adsCall.result)

\* The detector used directly: baselines are set, values and metrics objects
\* are checked, and the anomalies a check returned are scored and alerted.
DetectorNext ==
    \/ \E m \in DetectorMetrics, values \in WindowSamples : UpdateBaselineCall(m, values)
    \/ \E m \in DetectorMetrics, value \in ObservedSamples : DetectAnomalyCall(m, value)
    \/ \E metrics \in CallMetricsSamples : ProcessCallMetricsCall(metrics)
    \/ ScoreFlagged
    \/ AlertFlagged

DetectorSpec == Init /\ [][DetectorNext]_vars

\* The risk scorer used directly on lists of anomalies.
ScorerNext == \E anomalyList \in AnomalyLists : CalculateRiskScoreCall(anomalyList)

ScorerSpec == Init /\ [][ScorerNext]_vars

\* ------------------------------------- direct calls of the route scorer

\* What measureLatency, getCurrentLoad and calculateReliability can return for
\* a route: the first two samples score the same with different metrics.
MeasuredSamples ==
    {GoodMetrics,
     [latency |-> Int2Num(60), load |-> Rat(2, 15), reliability |-> Rat(98, 100)],
     PoorMetrics}

\* The metrics objects a caller can pass to calculateRouteWeight, in range and
\* out of range.
LatencySamples == {Int2Num(-10), Int2Num(0), Int2Num(50), Int2Num(200), Int2Num(300)}

LoadSamples == {Rat(-1, 10), Zero, Rat(2, 10), One, Rat(3, 2)}

ReliabilitySamples == {Rat(-1, 10), Zero, Rat(98, 100), One, Rat(3, 2)}

\* The host calls dcd.getOptimalRoute(networkState, callRequest); metricsOf is
\* what the three measurements return for each route.
GetOptimalRouteCall(metricsOf) ==
    /\ dcdCall' = [op |-> "getOptimalRoute",
                   availableRoutes |-> GetAvailableRoutes,
                   metricsOf |-> metricsOf,
                   result |-> GetOptimalRoute(GetAvailableRoutes, metricsOf)]
    /\ UNCHANGED <<now, baselineMetrics, updateLog, activeCalls, systemMetrics, procVars,
                   endResult, steps, registrant, updates, ends, lcrCall, adsCall,
                   costCall, otpSecrets, verificationAttempts, mfaCall>>

\* The host calls dcd.calculateRouteWeight(metrics).
CalculateRouteWeightCall(metrics) ==
    /\ dcdCall' = [op |-> "calculateRouteWeight",
                   metrics |-> metrics,
                   result |-> CalculateRouteWeight(metrics)]
    /\ UNCHANGED <<now, baselineMetrics, updateLog, activeCalls, systemMetrics, procVars,
                   endResult, steps, registrant, updates, ends, lcrCall, adsCall,
                   costCall, otpSecrets, verificationAttempts, mfaCall>>

DistributionNext ==
    \/ \E metricsOf \in [Routes -> MeasuredSamples] : GetOptimalRouteCall(metricsOf)
    \/ \E latency \in LatencySamples, load \in LoadSamples,
          reliability \in ReliabilitySamples :
           CalculateRouteWeightCall([latency |-> latency, load |-> load,
                                     reliability |-> reliability])

DistributionSpec == Init /\ [][DistributionNext]_vars

\* ------------------------------------------------------- MultiFactorAuth

MAX_ATTEMPTS == 3

UserIds == {"u1", "u2"}

\* What crypto.randomBytes(20).toString('hex') can return.
SecretSamples == {"5f1c", "a07e"}

\* generateTOTP(secret) at time t: the code is a function of the secret and of
\* the 30 second window; distinct secrets and windows are taken to give
\* distinct codes.
GenerateTOTP(secret, t) == [otpOf |-> secret, window |-> t \div 30]

\* The codes a caller submits: the code of any secret in use at any time, and
\* the code of a secret nobody holds.
CodeSamples ==
    {GenerateTOTP(secret, t) : secret \in SecretSamples \cup {"none"}, t \in 0..MaxTime}

\* this.verificationAttempts.get(userId) || 0
Attempts(attemptsOf, userId) ==
    IF userId \in DOMAIN attemptsOf THEN attemptsOf[userId] ELSE 0

\* Mutant: the lockout starts one failed attempt later.
LockedOutAfter(attempts) == attempts > MAX_ATTEMPTS

\* attempts >= this.MAX_ATTEMPTS
LockedOut(attempts) == attempts >= MAX_ATTEMPTS

\* verifyTOTP(userId, code): what it returns and the attempts map it leaves.
VerifyTOTP(secrets, attemptsOf, userId, code, t) ==
    IF userId \notin DOMAIN secrets
    THEN [isValid |-> FALSE, attemptsOf |-> attemptsOf]
    ELSE LET attempts == Attempts(attemptsOf, userId)
         IN  IF LockedOut(attempts)
             THEN [isValid |-> FALSE, attemptsOf |-> attemptsOf]
             ELSE IF code = GenerateTOTP(secrets[userId].secret, t)
                  THEN [isValid |-> TRUE, attemptsOf |-> MapDelete(attemptsOf, userId)]
                  ELSE [isValid |-> FALSE,
                        attemptsOf |-> MapSet(attemptsOf, userId, attempts + 1)]

\* analyzeBehaviorRisk: the risk score of the three risk factors, in tenths.
BehaviorRiskScore(unusualTime, unusualLocation, suspiciousPattern) ==
    (IF unusualTime THEN 3 ELSE 0) + (IF unusualLocation THEN 4 ELSE 0)
        + (IF suspiciousPattern THEN 3 ELSE 0)

\* The host calls mfa.generateTOTPSecret(userId).
GenerateTOTPSecretCall(userId) ==
    /\ \E secret \in SecretSamples :
           /\ otpSecrets' = MapSet(otpSecrets, userId, [secret |-> secret, createdAt |-> now])
           /\ mfaCall' = [op |-> "generateTOTPSecret", userId |-> userId, result |-> secret]
    /\ UNCHANGED <<now, baselineMetrics, updateLog, activeCalls, systemMetrics, procVars,
                   endResult, steps, registrant, updates, ends, lcrCall, adsCall,
                   dcdCall, costCall, verificationAttempts>>

\* The host calls mfa.verifyTOTP(userId, code).
VerifyTOTPCall(userId, code) ==
    /\ verificationAttempts' =
           VerifyTOTP(otpSecrets, verificationAttempts, userId, code, now).attemptsOf
    /\ mfaCall' = [op |-> "verifyTOTP", userId |-> userId, code |-> code,
                   result |-> VerifyTOTP(otpSecrets, verificationAttempts,
                                         userId, code, now).isValid]
    /\ UNCHANGED <<now, baselineMetrics, updateLog, activeCalls, systemMetrics, procVars,
                   endResult, steps, registrant, updates, ends, lcrCall, adsCall,
                   dcdCall, costCall, otpSecrets>>

\* The host calls mfa.authenticate({userId, totpCode, behaviorData}); the
\* three risk factors are what the clock, isKnownLocation and behaviorData give.
AuthenticateCall(userId, totpCode, unusualTime, unusualLocation, suspiciousPattern) ==
    /\ verificationAttempts' =
           VerifyTOTP(otpSecrets, verificationAttempts, userId, totpCode, now).attemptsOf
    /\ mfaCall' =
           [op |-> "authenticate", userId |-> userId, code |-> totpCode,
            result |->
                LET isValidTOTP == VerifyTOTP(otpSecrets, verificationAttempts,
                                              userId, totpCode, now).isValid
                    score == BehaviorRiskScore(unusualTime, unusualLocation,
                                               suspiciousPattern)
                IN  IF ~isValidTOTP
                    THEN [success |-> FALSE, error |-> "INVALID_TOTP",
                          requiresAdditionalVerification |-> FALSE]
                    ELSE [success |-> TRUE,
                          riskAssessment |->
                              [unusualTime |-> unusualTime,
                               unusualLocation |-> unusualLocation,
                               suspiciousPattern |-> suspiciousPattern,
                               riskScore |-> Rat(score, 10)],
                          requiresAdditionalVerification |-> score >= 7]]
    /\ UNCHANGED <<now, baselineMetrics, updateLog, activeCalls, systemMetrics, procVars,
                   endResult, steps, registrant, updates, ends, lcrCall, adsCall,
                   dcdCall, costCall, otpSecrets>>

MfaNext ==
    \/ \E userId \in UserIds : GenerateTOTPSecretCall(userId)
    \/ \E userId \in UserIds, code \in CodeSamples : VerifyTOTPCall(userId, code)
    \/ \E userId \in UserIds, code \in CodeSamples,
          unusualTime, unusualLocation, suspiciousPattern \in BOOLEAN :
           AuthenticateCall(userId, code, unusualTime, unusualLocation, suspiciousPattern)

MfaSpec == Init /\ [][MfaNext]_vars

\* ------------------------------------------------------------------ claims

Range(f) == {f[x] : x \in DOMAIN f}

Settled(p) == pc[p] = "done"
Failed(p) == Settled(p) /\ ~result[p].success
Succeeded(p) == Settled(p) /\ result[p].success
FailedWith(p, error) == Settled(p) /\ result[p] = [success |-> FALSE, error |-> error]

\* What the authenticator reports for the request of a started invocation.
Reported(p) == ProcessIncomingCall(callRequest[p])

DuplicateCallError == [name |-> "DuplicateCallError", message |-> <<"Call already active">>]

\* C1: when processCall reaches registration with a call id that already has
\* a live session, the invocation fails with DuplicateCallError and the
\* existing session (route, metrics, start time) is left as it was.
C1_DuplicateIdRejected ==
    [][\A p \in Procs :
          (/\ pc[p] = "monitor"
           /\ pc'[p] # "monitor"
           /\ callRequest[p].id \in DOMAIN activeCalls)
          => /\ pc'[p] = "done"
             /\ result'[p] = [success |-> FALSE, error |-> DuplicateCallError]
             /\ callRequest[p].id \in DOMAIN activeCalls'
             /\ activeCalls'[callRequest[p].id] = activeCalls[callRequest[p].id]]_vars

\* C2: every entry of the live-call store was written by an invocation of
\* processCall that has not failed: the id of a failed processCall is not
\* left in the store by it.
C2_NoFailedCallIsLive ==
    \A c \in DOMAIN activeCalls : ~Failed(registrant[c])

\* C3: a failure of logCall never fails the call it describes: the
\* processCall that awaits logCall returns success and leaves failedCalls
\* alone whatever the sink does, and endCall of a live call returns the call
\* summary whatever the sink does.
C3_SinkFailureNeverPropagates ==
    [][/\ \A p \in Procs :
              (pc[p] = "log" /\ pc'[p] = "done")
              => /\ result'[p].success
                 /\ systemMetrics'.failedCalls = systemMetrics.failedCalls
       /\ \A c \in DOMAIN activeCalls :
              (c \notin DOMAIN activeCalls')
              => /\ "error" \notin DOMAIN endResult'
                 /\ endResult'.route = activeCalls[c].route]_vars

\* C4: an invocation goes past verification only if the authenticator reports
\* verified = true; when it reports verified = false the invocation fails with
\* the verification error, and no route was scored, no cost evaluated, no
\* session key issued and no session registered for it.
C4_VerificationGate ==
    \A p \in Procs :
        pc[p] # "idle" =>
            /\ (pc[p] \in {"route", "cost", "monitor", "log"}
                   \/ Range(steps[p]) \cap {"score", "cost", "key", "risk", "register"} # {})
                   => Reported(p).verified
            /\ ~Reported(p).verified =>
                   /\ steps[p] \in {<<>>, <<"verify", "Aborted">>}
                   /\ p \notin Range(registrant)
                   /\ Settled(p) => FailedWith(p, VerificationError(Reported(p).errorCode))

\* C4 witness: an unverified call aborted while another, verified call went on.
C4_Witness ==
    \E p, q \in Procs :
        /\ Settled(p) /\ ~Reported(p).verified /\ Failed(p)
        /\ pc[q] # "idle" /\ Reported(q).verified /\ "register" \in Range(steps[q])

\* C5: whenever the risk assessment of an invocation has level high, the
\* invocation fails with the high-risk error and never registers a session;
\* no invocation assessed as high succeeds.
C5_HighRiskAborts ==
    \A p \in Procs :
        assessed[p] = "high" =>
            /\ FailedWith(p, HighRiskError)
            /\ "register" \notin Range(steps[p])

\* C5 witness: an invocation whose assessment was high has settled.
C5_Witness ==
    \E p \in Procs : assessed[p] = "high" /\ Settled(p)

\* C6: an invocation whose risk level is not high (no anomaly, or anomalies of
\* level low or medium) returns success, the analytics sink permitting (the
\* sink's failures are the subject of C3).
C6_NonHighRiskSucceeds ==
    \A p \in Procs :
        (Settled(p) /\ assessed[p] \in {"noAnomaly", "low", "medium"}
            /\ ~FailedWith(p, SinkError))
        => Succeeded(p)

\* C7: route selection over an empty candidate list reports NoRoutesAvailable.
C7_EmptyCandidatesReported ==
    (lcrCall # Null /\ lcrCall.availableRoutes = <<>>)
        => lcrCall.result = [error |-> "NoRoutesAvailable"]

\* The reasons a failed processCall may carry: the taxonomy's codes and the
\* propagated cause of a collaborator failure.
ReasonCodes ==
    {VerificationError(code) : code \in {"NO_PASSPORT", "INVALID_PASSPORT", "VERIFICATION_ERROR"}}
        \cup {HighRiskError, SinkError,
              [name |-> "Error", message |-> <<"NoRoutesAvailable">>],
              [name |-> "Error", message |-> <<"MetricUnavailable">>],
              [name |-> "Error", message |-> <<"Cancelled">>]}

\* C8: every failure of processCall carries a reason of the taxonomy or the
\* propagated collaborator cause.
C8_EveryFailureHasReason ==
    \A p \in Procs : Failed(p) => result[p].error \in ReasonCodes

\* The lifecycle steps in their order, and the traces the state machine allows:
\* a prefix of the order, then at most one terminal step, Completed only after
\* registration.
LifecycleOrder == <<"verify", "score", "cost", "risk", "register">>

IsLifecycleTrace(t) ==
    \E n \in 0..Len(LifecycleOrder) :
        \/ t = SubSeq(LifecycleOrder, 1, n)
        \/ t = SubSeq(LifecycleOrder, 1, n) \o <<"Aborted">>
        \/ n = Len(LifecycleOrder) /\ t = LifecycleOrder \o <<"Completed">>

NotKey(x) == x # "key"

\* C9: the steps of every call occur in the lifecycle order, each after all
\* earlier ones, and nothing follows Completed or Aborted.
C9_LifecycleOrdered ==
    \A p \in Procs : IsLifecycleTrace(SelectSeq(steps[p], NotKey))

\* C10: the risk decision taken for a call is the one it would have taken had
\* no call with another id been processed.
C10_DecisionIndependent ==
    \A p \in Procs : assessed[p] = soloAssessed[p]

\* C11: nothing is retried: no invocation calls the same collaborator operation
\* on the same route twice (the authenticator once, each metric of each
\* candidate route once, the cost and the delay of the selected route once),
\* and a collaborator call that failed is the last call the invocation makes:
\* the invocation has then failed.
C11_NoRetry ==
    \A p \in Procs :
        /\ Cardinality(Range(collab[p])) = Len(collab[p])
        /\ failedAt[p] # 0 => (failedAt[p] = Len(collab[p]) /\ Failed(p))

\* C11 witness: an invocation measured every candidate route and the selected
\* route's cost, and its last collaborator call, logCall, failed.
C11_Witness ==
    \E p \in Procs :
        /\ failedAt[p] = Len(collab[p])
        /\ failedAt[p] > 3 * Len(GetAvailableRoutes)
        /\ collab[p][failedAt[p]] = Call("logCall", "none")
        /\ \E r \in Routes : Call("measureDelay", r) \in Range(collab[p])

\* C12: endCall(id) on a live session returns the route and the route metrics
\* recorded for the session at registration and removes the session, which
\* frees the id; endCall(id) on an id that is not live fails with 'Call not
\* found' and changes nothing.
C12_EndCallReturnsAndFrees ==
    [][ends' = ends + 1 =>
          LET id == endResult'.callId
          IN  IF id \in DOMAIN activeCalls
              THEN /\ "error" \notin DOMAIN endResult'
                   /\ endResult'.route = activeCalls[id].route
                   /\ endResult'.metrics = activeCalls[id].metrics
                   /\ activeCalls' = MapDelete(activeCalls, id)
              ELSE /\ endResult' = [callId |-> id, error |-> CallNotFoundError]
                   /\ UNCHANGED <<now, baselineMetrics, activeCalls, systemMetrics,
                                  procVars, steps, registrant, apiCalls>>]_vars

\* The latest direct call of the anomaly detection system was of operation op.
Called(op) == adsCall # Null /\ adsCall.op = op

\* baseline has the mean and the standard deviation of one and the same
\* window among windows.
FromOneUpdate(baseline, windows) ==
    \E i \in 1..Len(windows) :
        /\ baseline.mean = Mean(windows[i])
        /\ baseline.stdDev = Sqrt(Variance(windows[i]))

\* C13: a read of a metric's baseline never sees a partially written one: the
\* mean and the standard deviation of every stored baseline, and of the
\* baseline detectAnomaly read, come from the same updateBaseline call.
C13_BaselineReadIsWhole ==
    /\ \A m \in DOMAIN baselineMetrics : FromOneUpdate(baselineMetrics[m], updateLog[m])
    /\ (Called("detectAnomaly") /\ adsCall.baseline # Null) =>
           /\ FromOneUpdate(adsCall.baseline, updateLog[adsCall.metricName])
           /\ adsCall.result.baselineMean = adsCall.baseline.mean

\* C13 witness: detectAnomaly read the baseline of a metric that was updated
\* twice, with windows of different mean and different standard deviation.
C13_Witness ==
    /\ Called("detectAnomaly")
    /\ adsCall.baseline # Null
    /\ LET windows == updateLog[adsCall.metricName]
       IN  /\ Len(windows) = 2
           /\ Mean(windows[1]) # Mean(windows[2])
           /\ Variance(windows[1]) # Variance(windows[2])

RECURSIVE SumNums(_)
SumNums(s) == IF s = <<>> THEN Zero ELSE NumAdd(Head(s), SumNums(Tail(s)))

\* The mean and the population variance of a non-empty window of integers.
PopulationMean(values) ==
    NumMul(SumNums([i \in 1..Len(values) |-> Int2Num(values[i])]), Rat(1, Len(values)))

PopulationVariance(values) ==
    LET mu == PopulationMean(values)
        sq == [i \in 1..Len(values) |->
                  NumMul(NumSub(Int2Num(values[i]), mu), NumSub(Int2Num(values[i]), mu))]
    IN  NumMul(SumNums(sq), Rat(1, Len(values)))

\* C14: the stored baseline of a metric has exactly the mean and the
\* population standard deviation of the window passed to the most recent
\* updateBaseline of that metric, when that window is not empty, whatever
\* was passed to earlier updates.
C14_BaselineIsLatestWindow ==
    \A m \in DOMAIN baselineMetrics :
        LET values == updateLog[m][Len(updateLog[m])]
        IN  values # <<>> =>
                /\ baselineMetrics[m].mean = PopulationMean(values)
                /\ baselineMetrics[m].stdDev = [radicand |-> PopulationVariance(values)]

\* C14 witness: a metric was updated twice, with different windows, the
\* latest of non-zero variance.
C14_Witness ==
    \E m \in DOMAIN baselineMetrics :
        /\ Len(updateLog[m]) = 2
        /\ updateLog[m][1] \notin {<<>>, updateLog[m][2]}
        /\ updateLog[m][2] # <<>>
        /\ PopulationVariance(updateLog[m][2]) # Zero

\* The baseline of metric m is not the same before and after the step.
BaselineChanged(m) ==
    ~(/\ m \in DOMAIN baselineMetrics
      /\ m \in DOMAIN baselineMetrics'
      /\ baselineMetrics'[m] = baselineMetrics[m])

\* The step is a call of updateBaseline on metric m.
UpdateOf(m) ==
    /\ updates' = updates + 1
    /\ m \in DOMAIN updateLog'
    /\ Len(updateLog'[m]) = (IF m \in DOMAIN updateLog THEN Len(updateLog[m]) ELSE 0) + 1

\* C15: the baseline of a metric changes only in a step that is an
\* updateBaseline call on that metric: every other operation leaves all
\* baselines as they are, and updateBaseline leaves those of other metrics.
C15_BaselineFrame ==
    [][\A m \in DOMAIN baselineMetrics \cup DOMAIN baselineMetrics' :
          BaselineChanged(m) => UpdateOf(m)]_vars

\* C15 witness: with the baselines of two metrics set, by two updates, the
\* anomalies of a check were scored.
C15_Witness ==
    /\ Cardinality(DOMAIN baselineMetrics) = 2
    /\ Called("calculateRiskScore")
    /\ adsCall.anomalies # <<>>

\* C16: detectAnomaly on a metric for which updateBaseline was never called
\* reports no anomaly whatever the value; with no baseline at all
\* processCallMetrics returns no anomalies and no invocation of processCall
\* is assessed as risky or fails as high-risk.
C16_NoBaselineNoAnomaly ==
    /\ (Called("detectAnomaly") /\ adsCall.metricName \notin DOMAIN updateLog)
           => adsCall.result.isAnomaly = FALSE
    /\ (Called("processCallMetrics") /\ updateLog = <<>>) => adsCall.result = <<>>
    /\ updateLog = <<>> =>
           \A p \in Procs : /\ assessed[p] \in {"none", "noAnomaly"}
                            /\ ~FailedWith(p, HighRiskError)

\* C16 witness: detectAnomaly was called with a value far from any baseline
\* on a metric without a baseline, while another metric has one.
C16_Witness ==
    /\ Called("detectAnomaly")
    /\ adsCall.metricName \notin DOMAIN updateLog
    /\ updateLog # <<>>
    /\ adsCall.value = Int2Num(135)

\* C17: detectAnomaly against a baseline whose mean is zero reports
\* DegenerateBaselineError, with no deviation value and no anomaly, and no
\* anomaly returned by processCallMetrics was measured against a zero mean.
C17_ZeroMeanIsDegenerate ==
    /\ (Called("detectAnomaly") /\ adsCall.baseline # Null /\ adsCall.baseline.mean = Zero)
           => adsCall.result = [error |-> "DegenerateBaselineError"]
    /\ Called("processCallMetrics")
           => \A i \in DOMAIN adsCall.result : adsCall.result[i].baselineMean # Zero

\* The threshold table: 0.2 for a metric that is not listed.
ThresholdTable(metricName) ==
    CASE metricName = "callVolume" -> Rat(3, 10)
      [] metricName = "duration" -> Rat(1, 4)
      [] metricName = "failureRate" -> Rat(1, 5)
      [] metricName = "latency" -> Rat(3, 20)
      [] OTHER -> Rat(1, 5)

\* |value - mean| / mean > threshold for finite numbers, mean # 0, in integers:
\* the ratio is num / den with num >= 0, so it is not positive when den < 0.
AboveThreshold(value, mean, threshold) ==
    LET num == Abs(value.n * mean.d - mean.n * value.d) * mean.d
        den == value.d * mean.d * mean.n
    IN  den > 0 /\ num * threshold.d > threshold.n * den

\* detectAnomaly was called on a metric with the baseline mean mean.
DetectedAgainst(mean) ==
    Called("detectAnomaly") /\ adsCall.baseline # Null /\ adsCall.baseline.mean = mean

\* C18: against a baseline of non-zero mean, detectAnomaly reports an anomaly
\* if and only if |value - mean| / mean is strictly greater than the
\* threshold of the metric (0.2 when not listed); a deviation equal to the
\* threshold is not anomalous; mean 100, threshold 0.2, value 135 is.
C18_AnomalousIffAboveThreshold ==
    /\ (/\ Called("detectAnomaly")
        /\ adsCall.baseline # Null
        /\ adsCall.baseline.mean.k = "num"
        /\ adsCall.baseline.mean.n # 0)
           => /\ adsCall.result.threshold = ThresholdTable(adsCall.metricName)
              /\ adsCall.result.isAnomaly =
                     AboveThreshold(adsCall.value, adsCall.baseline.mean,
                                    ThresholdTable(adsCall.metricName))
    /\ (DetectedAgainst(Int2Num(100)) /\ adsCall.metricName \in {"failureRate", "jitter"})
           => /\ adsCall.value = Int2Num(135)
                     => (adsCall.result.isAnomaly /\ adsCall.result.deviation = Rat(35, 100))
              /\ adsCall.value = Int2Num(120)
                     => (~adsCall.result.isAnomaly /\ adsCall.result.deviation = Rat(20, 100))

\* C18 witness: a deviation exactly equal to the threshold was evaluated.
C18_Witness ==
    /\ DetectedAgainst(Int2Num(100))
    /\ adsCall.metricName = "jitter"
    /\ adsCall.value = Int2Num(120)
    /\ adsCall.result.deviation = adsCall.result.threshold

\* The type under which a present field that detectAnomaly flags is reported:
\* nothing for an absent field or a field that is not flagged.
FlaggedIfPresent(bm, metrics, field, type, t) ==
    IF field \in DOMAIN metrics /\ DetectAnomaly(bm, type, metrics[field], t).isAnomaly
    THEN <<type>> ELSE <<>>

\* C19: the anomalies processCallMetrics returns are exactly the present
\* fields (a present field of value 0 included) that detectAnomaly flags, in
\* the order callVolume, duration, failureRate.
C19_PresentFieldsEvaluated ==
    Called("processCallMetrics") =>
        [i \in 1..Len(adsCall.result) |-> adsCall.result[i].type]
            = FlaggedIfPresent(baselineMetrics, adsCall.metrics, "callVolume", "callVolume", now)
                \o FlaggedIfPresent(baselineMetrics, adsCall.metrics, "avgDuration", "duration", now)
                \o FlaggedIfPresent(baselineMetrics, adsCall.metrics, "failureRate", "failureRate", now)

\* The weight table: 0.2 for a type that is not listed.
WeightTable(type) ==
    CASE type = "callVolume" -> Rat(3, 10)
      [] type = "duration" -> Rat(1, 5)
      [] type = "failureRate" -> Rat(1, 2)
      [] OTHER -> Rat(1, 5)

RECURSIVE WeightedSum(_)
WeightedSum(anomalyList) ==
    IF anomalyList = <<>> THEN Zero
    ELSE NumAdd(NumScale(Head(anomalyList).deviation, WeightTable(Head(anomalyList).type)),
                WeightedSum(Tail(anomalyList)))

\* x clamped into [0, 1].
Clamp01(x) == IF NumLess(x, Zero) THEN Zero ELSE IF NumLess(One, x) THEN One ELSE x

\* low below 0.3, medium from 0.3 to below 0.7, high from 0.7, for 0 <= x <= 1.
LevelOf(x) ==
    IF 10 * x.n < 3 * x.d THEN "low"
    ELSE IF 10 * x.n < 7 * x.d THEN "medium"
    ELSE "high"

\* C20: for every list of anomalies the risk score is the sum of deviation
\* times the weight of the type, clamped into [0, 1], and the level is low
\* below 0.3, medium from 0.3 to below 0.7 and high from 0.7; the empty list
\* gives score 0 and level low, a single failureRate anomaly of deviation 0.6
\* gives score 0.3 and level medium.
C20_RiskScoreAndLevel ==
    Called("calculateRiskScore") =>
        /\ adsCall.result.score = Clamp01(WeightedSum(adsCall.anomalies))
        /\ adsCall.result.level = LevelOf(Clamp01(WeightedSum(adsCall.anomalies)))
        /\ adsCall.anomalies = <<>> =>
               (adsCall.result.score = Zero /\ adsCall.result.level = "low")
        /\ adsCall.anomalies = <<[type |-> "failureRate", deviation |-> Rat(6, 10)]>> =>
               (adsCall.result.score = Rat(3, 10) /\ adsCall.result.level = "medium")

\* C20 witness: the single failureRate anomaly of deviation 0.6 was scored.
C20_Witness ==
    /\ Called("calculateRiskScore")
    /\ adsCall.anomalies = <<[type |-> "failureRate", deviation |-> Rat(6, 10)]>>
    /\ adsCall.result.level = "medium"


\* The position of a route identifier in lexicographic order: the
\* identifiers differ in their last character only.
IdRank(r) ==
    CASE r = "route1" -> 1
      [] r = "route2" -> 2
      [] r = "route3" -> 3
      [] r = "route4" -> 4

Measured(op) == dcdCall # Null /\ dcdCall.op = op

InRange(m) ==
    /\ m.latency.n >= 0
    /\ m.load.n >= 0 /\ m.load.n <= m.load.d
    /\ m.reliability.n >= 0 /\ m.reliability.n <= m.reliability.d

\* 0.4 * (1 - min(latency, 200) / 200) + 0.3 * (1 - load) + 0.3 * reliability
\* as one fraction.
ExpectedScore(m) ==
    LET c == IF m.latency.n >= 200 * m.latency.d THEN Int2Num(200) ELSE m.latency
        l == m.load
        r == m.reliability
    IN  Rat(4 * (200 * c.d - c.n) * l.d * r.d
                + 3 * 200 * c.d * (l.d - l.n) * r.d
                + 3 * 200 * c.d * l.d * r.n,
            10 * 200 * c.d * l.d * r.d)

\* C22: for a metrics triple in range calculateRouteWeight returns
\* 0.4 * (1 - min(latency, 200) / 200) + 0.3 * (1 - load) + 0.3 * reliability,
\* which lies in [0, 1]; a latency of 200 or more contributes nothing, as a
\* latency of 200 does; latency 50, load 0.2, reliability 0.98 give 0.834.
C22_ScoreFormula ==
    (Measured("calculateRouteWeight") /\ InRange(dcdCall.metrics)) =>
        LET m == dcdCall.metrics
            score == dcdCall.result
        IN  /\ score = ExpectedScore(m)
            /\ ~NumLess(score, Zero)
            /\ ~NumLess(One, score)
            /\ m.latency.n >= 200 * m.latency.d =>
                   score = Rat(3 * (m.load.d - m.load.n) * m.reliability.d
                                   + 3 * m.load.d * m.reliability.n,
                               10 * m.load.d * m.reliability.d)
            /\ (m.latency = Int2Num(50) /\ m.load = Rat(2, 10)
                    /\ m.reliability = Rat(98, 100)) => score = Rat(834, 1000)

\* A latency above 200 with load 0.2 and reliability 0.98 scored 0.534.
C22_Witness ==
    /\ Measured("calculateRouteWeight")
    /\ InRange(dcdCall.metrics)
    /\ dcdCall.metrics.latency = Int2Num(300)
    /\ dcdCall.result = Rat(534, 1000)

\* C23: scoring a metrics triple out of range fails with InvalidMetricError.
C23_OutOfRangeRejected ==
    (Measured("calculateRouteWeight") /\ ~InRange(dcdCall.metrics)) =>
        dcdCall.result = [error |-> "InvalidMetricError"]


\* The sum of weight * cost over the components from i on, the weight of a
\* component being the supplied one, and 1 where none is supplied.
RECURSIVE SuppliedWeightSum(_, _, _)
SuppliedWeightSum(costs, weights, i) ==
    IF i > Len(costs) THEN Zero
    ELSE LET w == IF i <= Len(weights) THEN weights[i] ELSE One
             c == costs[i]
             rest == SuppliedWeightSum(costs, weights, i + 1)
         IN  Rat((w.n * c.n) * rest.d + rest.n * (w.d * c.d), (w.d * c.d) * rest.d)

\* C24: calculateTotalCost returns the sum of weight * cost plus 0.2 * delay,
\* with the supplied weight for every component that has one, a weight of 0
\* included, and 1 for a component whose weight is omitted; costs 4, 2, 1 with
\* weights 0.5, 0.3, 0.2 and delay 40 give 10.8.
C24_TotalCostUsesSuppliedWeights ==
    costCall # Null =>
        LET sum == SuppliedWeightSum(costCall.route.costs, costCall.route.weights, 1)
            d == costCall.delay
        IN  /\ costCall.result = Rat(10 * sum.n * d.d + 2 * d.n * sum.d, 10 * sum.d * d.d)
            /\ (costCall.route = [costs |-> <<Int2Num(4), Int2Num(2), Int2Num(1)>>,
                                  weights |-> <<Rat(5, 10), Rat(3, 10), Rat(2, 10)>>]
                    /\ d = Int2Num(40)) => costCall.result = Rat(108, 10)


\* C25: totalCalls and successfulCalls are 0 in every state, failedCalls is
\* the number of processCall invocations that ended in failure, and the call
\* volume and failure rate processCall hands to anomaly detection are 0.
C25_CountersAndFedMetrics ==
    /\ systemMetrics.totalCalls = 0
    /\ systemMetrics.successfulCalls = 0
    /\ systemMetrics.failedCalls = Cardinality({p \in Procs : Failed(p)})
    /\ CallMetrics(activeCalls, systemMetrics, now).callVolume = Zero
    /\ CallMetrics(activeCalls, systemMetrics, now).failureRate = Zero

\* One invocation failed, another succeeded and its call was ended since.
C25_Witness ==
    /\ systemMetrics.failedCalls = 1
    /\ \E p, q \in Procs : Failed(p) /\ Succeeded(q)
    /\ ends > 0
    /\ endResult # Null
    /\ activeCalls = <<>>


\* Whether the verifyTOTP call of the latest operation returned true.
VerifyReturned(call) ==
    IF call.op = "verifyTOTP" THEN call.result ELSE call.result.success

\* C26: the count of failed verifications of a user never exceeds
\* MAX_ATTEMPTS; a correct code submitted while the count is below it succeeds
\* and resets the count to zero; once the count is MAX_ATTEMPTS no operation
\* changes it and every verification of the user fails, a correct code
\* included.
C26_LockoutIsPermanent ==
    [][\A u \in UserIds :
           LET before == Attempts(verificationAttempts, u)
               after == Attempts(verificationAttempts', u)
           IN  /\ after <= 3
               /\ before = 3 => after = 3
               /\ (mfaCall'.op \in {"verifyTOTP", "authenticate"} /\ mfaCall'.userId = u
                       /\ u \in DOMAIN otpSecrets) =>
                      /\ before = MAX_ATTEMPTS => ~VerifyReturned(mfaCall')
                      /\ (before < MAX_ATTEMPTS
                              /\ mfaCall'.code = GenerateTOTP(otpSecrets[u].secret, now)) =>
                             (VerifyReturned(mfaCall') /\ after = 0)]_vars

\* A locked-out user's verifyTOTP with the correct code returned false.
C26_Witness ==
    /\ mfaCall # Null
    /\ mfaCall.op = "verifyTOTP"
    /\ mfaCall.userId \in DOMAIN otpSecrets
    /\ Attempts(verificationAttempts, mfaCall.userId) = MAX_ATTEMPTS
    /\ mfaCall.code = GenerateTOTP(otpSecrets[mfaCall.userId].secret, now)
    /\ mfaCall.result = FALSE

============================================================================
